---- MODULE Spec2Model ----
(***************************************************************************)
(* Model of tools/build.py, the build orchestrator of scone-studio.        *)
(*                                                                         *)
(* The script is run as a process over a persistent filesystem.  One run   *)
(* parses its arguments, creates the dependency directories, and then      *)
(* dispatches on the target to a chain of build steps.  Every build step   *)
(* resets its build directory and shells out three times to cmake          *)
(* (configure, build, install); subprocess.check_call raises on a non-zero *)
(* return code and nothing in the script catches it.                       *)
(*                                                                         *)
(* The filesystem outlives a run, so the model lets the script be run      *)
(* several times in a row (MaxRuns) over the same directories.             *)
(***************************************************************************)
EXTENDS Integers, Sequences, FiniteSets, TLC

\* ---------------------------------------------------------------- bounds
MaxRuns == 2        \* number of consecutive runs of the script
MaxCpu  == 3        \* largest processor count of the host
MaxExit == 2        \* largest return code a subprocess produces

\* ------------------------------------------------------- program constants
\* exit status of the interpreter when an exception reaches the top level
UncaughtExit == 1

Platforms == {"darwin", "linux", "win32"}
Targets   == {"deps", "osg", "simbody", "opensim", "scone", "all"}
RetCodes  == 0..MaxExit

\* ------------------------------------------------------------------ paths
ROOT == "ROOT"
SUB  == ROOT \o "/submodules"
DEPS == ROOT \o "/dependencies"

Names == {"osg", "simbody", "opensim", "scone"}

SUBDIRS ==
  [name \in Names |->
     CASE name = "osg"     -> SUB \o "/OpenSceneGraph"
       [] name = "simbody" -> SUB \o "/simbody"
       [] name = "opensim" -> SUB \o "/opensim3-scone"
       [] name = "scone"   -> ROOT \o "/scone"]

DEPSDIRS == [name \in Names |-> DEPS \o "/" \o name]

BuildPath(name)   == DEPSDIRS[name] \o "/build"
InstallPath(name) == DEPSDIRS[name] \o "/install"

\* ------------------------------------------------------------------ state
VARIABLES
  platform,   \* sys.platform of the host
  ncpu,       \* multiprocessing.cpu_count() of the host
  depsdir,    \* depsdir[d]: the directory DEPSDIRS[d] exists
  install,    \* install[d]: "absent" | "partial" | "complete"
  build,      \* build[d]: "absent" | "empty" | "used"
  pc,         \* position of the running process
  target,     \* args.target
  force,      \* args.rebuild
  queue,      \* build steps main still has to call, in call order
  cur,        \* the dependency whose step is executing
  entered,    \* build_* functions called so far in this run
  notice,     \* dependencies for which "already built" was printed
  log,        \* actions performed in this run: [dep, act, ok]
  cmd,        \* argument list of the last run() call
  cwd,        \* working directory of the last run() call
  retcode,    \* return code of the last subprocess
  status,     \* exit status of the process, once pc = "exited"
  runs,       \* number of runs started
  atEntry,    \* atEntry[d]: what install[d] was when build_d was called in this run
  lastFailed  \* lastFailed[d]: the last executed step of d hit a failing invocation

vars == <<platform, ncpu, depsdir, install, build, pc, target, force, queue,
          cur, entered, notice, log, cmd, cwd, retcode, status, runs,
          atEntry, lastFailed>>

host == <<platform, ncpu>>
fs   == <<depsdir, install, build>>
args == <<target, force>>

\* ------------------------------------------------------------- pure parts
\* variant: the half is rounded up
CORES_ceil(n) == (n + 1) \div 2

\* CORES = multiprocessing.cpu_count() // 2
CORES(n) == n \div 2

APT_PACKAGES ==
  <<"git", "rsync", "cmake", "make", "gcc", "g++", "python3.12-dev", "ruby",
    "ruby-dev", "rubygems", "libpng-dev", "zlib1g-dev", "qtbase5-dev",
    "liblapack-dev", "freeglut3-dev", "libxi-dev", "libxmu-dev",
    "liblapack-dev">>

\* The base configure command of cmake_configure_and_build.
cmake_cmd(name, extra_flags) ==
  << "cmake",
     SUBDIRS[name],
     "-DCMAKE_BUILD_TYPE=Release",
     "-DCMAKE_INSTALL_PREFIX=" \o InstallPath(name),
     "-DCMAKE_POLICY_VERSION_MINIMUM=3.5" >> \o extra_flags

build_cmd(n) == <<"cmake", "--build", ".", "--parallel", ToString(CORES(n))>>

install_cmd == <<"cmake", "--install", ".">>

osg_flags == <<"-DOSG_USE_QT=ON", "-DDESIRED_QT_VERSION=5">>

\* variant: the branch tests for linux, so every other platform gets the
\* macOS flags
platform_flags_not_linux(p) ==
  IF p # "linux"
  THEN << "-DCMAKE_OSX_DEPLOYMENT_TARGET=10.10",
          "-DCMAKE_CXX_FLAGS=-stdlib=libc++",
          "-DCMAKE_MACOSX_RPATH=TRUE",
          "-DCMAKE_INSTALL_RPATH=@executable_path/../lib",
          "-DBUILD_TESTING=OFF",
          "-DBUILD_API_EXAMPLES=OFF",
          "-DBUILD_API_ONLY=OFF",
          "-DCMAKE_POLICY_VERSION_MINIMUM=3.5" >>
  ELSE << "-DCMAKE_INSTALL_RPATH=$ORIGIN",
          "-DBUILD_TESTING=OFF",
          "-DBUILD_API_EXAMPLES=OFF",
          "-DBUILD_API_ONLY=OFF",
          "-DCMAKE_POLICY_VERSION_MINIMUM=3.5" >>

platform_flags(p) ==
  IF p = "darwin"
  THEN << "-DCMAKE_OSX_DEPLOYMENT_TARGET=10.10",
          "-DCMAKE_CXX_FLAGS=-stdlib=libc++",
          "-DCMAKE_MACOSX_RPATH=TRUE",
          "-DCMAKE_INSTALL_RPATH=@executable_path/../lib",
          "-DBUILD_TESTING=OFF",
          "-DBUILD_API_EXAMPLES=OFF",
          "-DBUILD_API_ONLY=OFF",
          "-DCMAKE_POLICY_VERSION_MINIMUM=3.5" >>
  ELSE << "-DCMAKE_INSTALL_RPATH=$ORIGIN",
          "-DBUILD_TESTING=OFF",
          "-DBUILD_API_EXAMPLES=OFF",
          "-DBUILD_API_ONLY=OFF",
          "-DCMAKE_POLICY_VERSION_MINIMUM=3.5" >>

opensim_flags(p) ==
  << "-DSIMBODY_HOME=" \o InstallPath("simbody"),
     "-DCMAKE_VERBOSE_MAKEFILE=FALSE" >> \o platform_flags(p)

\* extra_flags each build_* function hands to cmake_configure_and_build
extra_flags(name, p) ==
  CASE name = "osg"     -> osg_flags
    [] name = "opensim" -> opensim_flags(p)
    [] OTHER            -> << >>

\* variant: the cache test looks for a finished install
already_built_complete(dep_name) == install[dep_name] = "complete"

\* already_built: the install path exists, whatever it holds
already_built(dep_name) == install[dep_name] # "absent"

\* variant: the early return forgets the force flag
skips_ignoring_force(name, f) ==
  CASE name = "scone" -> FALSE
    [] OTHER          -> already_built(name)

\* variant: build_scone has the same early return as the others
skips_scone_cached(name, f) == already_built(name) /\ ~f

\* The early return of build_osg / build_simbody / build_opensim.
\* build_scone has no such test.
skips(name, f) ==
  CASE name = "scone" -> FALSE
    [] OTHER          -> already_built(name) /\ ~f

\* variant: build_all calls opensim before simbody
build_all_swapped == <<"osg", "opensim", "simbody", "scone">>

\* the calls main makes for a target, in order
build_all == <<"osg", "simbody", "opensim", "scone">>

dispatch(t) ==
  CASE t = "all"  -> build_all
    [] t = "deps" -> << >>
    [] OTHER      -> <<t>>

Entry(d, a, ok) == [dep |-> d, act |-> a, ok |-> ok]

\* ------------------------------------------------------------------- Init
Init ==
  /\ platform \in Platforms
  /\ ncpu \in 1..MaxCpu
  /\ depsdir = [d \in Names |-> FALSE]
  /\ install = [d \in Names |-> "absent"]
  /\ build   = [d \in Names |-> "absent"]
  /\ pc = "idle"
  /\ target = "all"
  /\ force = FALSE
  /\ queue = << >>
  /\ cur = "none"
  /\ entered = << >>
  /\ notice = {}
  /\ log = << >>
  /\ cmd = << >>
  /\ cwd = ""
  /\ retcode = 0
  /\ status = 0
  /\ runs = 0
  /\ atEntry = [d \in Names |-> "absent"]
  /\ lastFailed = [d \in Names |-> FALSE]

\* ---------------------------------------------------------------- actions
\* The script is started: argparse accepts a target and the --rebuild flag.
Start(t, r) ==
  /\ pc \in {"idle", "exited"}
  /\ runs < MaxRuns
  /\ runs' = runs + 1
  /\ target' = t
  /\ force' = r
  /\ pc' = "ensure"
  /\ queue' = << >>
  /\ cur' = "none"
  /\ entered' = << >>
  /\ notice' = {}
  /\ log' = << >>
  /\ cmd' = << >>
  /\ cwd' = ""
  /\ retcode' = 0
  /\ status' = 0
  /\ atEntry' = [d \in Names |-> "absent"]
  /\ UNCHANGED <<host, fs, lastFailed>>

\* ensure_dirs: SUB, DEPS and every DEPSDIRS[d] exist afterwards; the
\* build and install directories below them are not touched.
ensure_dirs ==
  /\ pc = "ensure"
  /\ depsdir' = [d \in Names |-> TRUE]
  /\ pc' = "dispatch"
  /\ UNCHANGED <<host, install, build, args, queue, cur, entered, notice,
                 log, cmd, cwd, retcode, status, runs, atEntry, lastFailed>>

\* the if/elif chain of main
main ==
  /\ pc = "dispatch"
  /\ queue' = dispatch(target)
  /\ pc' = IF target = "deps" THEN "apt_update" ELSE "step"
  /\ UNCHANGED <<host, fs, args, cur, entered, notice, log, cmd, cwd,
                 retcode, status, runs, atEntry, lastFailed>>

\* variant: run() uses subprocess.call and never raises
run_never_raises(c) == FALSE

\* run(): check_call returns on 0 and raises CalledProcessError otherwise.
run_raises(c) == c # 0

\* variant: main catches the exception and exits with its return code
exit_status_propagated(c) == c

\* The exception carries the return code c, but it is caught nowhere: the
\* interpreter prints the traceback and exits with its own status.
exit_status(c) == UncaughtExit

Raise(c) ==
  /\ pc' = "exited"
  /\ status' = exit_status(c)

\* an OSError of the build-directory reset, uncaught as well
RaiseOSError ==
  /\ pc' = "exited"
  /\ status' = UncaughtExit

\* install_system_deps, one run() at a time
SysDep(at, act, argv, then) ==
  /\ pc = at
  /\ \E c \in RetCodes :
       /\ retcode' = c
       /\ log' = Append(log, Entry("deps", act, c = 0))
       /\ IF ~run_raises(c)
          THEN /\ pc' = then
               /\ status' = status
          ELSE Raise(c)
  /\ cmd' = argv
  /\ cwd' = ""
  /\ UNCHANGED <<host, fs, args, queue, cur, entered, notice, runs,
                 atEntry, lastFailed>>

apt_update  == SysDep("apt_update", "apt_update",
                      <<"sudo", "apt-get", "update">>, "apt_install")
apt_install == SysDep("apt_install", "apt_install",
                      <<"sudo", "apt-get", "install", "-y">> \o APT_PACKAGES,
                      "gem_install")
gem_install == SysDep("gem_install", "gem_install",
                      <<"sudo", "gem", "install", "--no-document", "fpm">>,
                      "step")

\* A build_* function is called: either it prints the notice and returns,
\* or it goes on into cmake_configure_and_build.
build_step ==
  /\ pc = "step"
  /\ queue # << >>
  /\ LET d == Head(queue) IN
       /\ entered' = Append(entered, d)
       /\ queue' = Tail(queue)
       /\ cur' = d
       /\ IF skips(d, force)
          THEN /\ notice' = notice \cup {d}
               /\ pc' = "step"
          ELSE /\ notice' = notice
               /\ pc' = "reset"
       /\ atEntry' = [atEntry EXCEPT ![d] = install[d]]
  /\ UNCHANGED <<host, fs, args, log, cmd, cwd, retcode, status, runs,
                 lastFailed>>

\* shutil.rmtree(build) if it exists, then build.mkdir().  Either call can
\* raise OSError, which ends the process like any uncaught exception.
reset_build ==
  /\ pc = "reset"
  /\ \E ok \in BOOLEAN :
       /\ log' = Append(log, Entry(cur, "reset", ok))
       /\ IF ok
          THEN /\ build' = [build EXCEPT ![cur] = "empty"]
               /\ pc' = "configure"
               /\ status' = status
          ELSE /\ build' = build
               /\ RaiseOSError
  /\ UNCHANGED <<host, depsdir, install, args, queue, cur, entered, notice,
                 cmd, cwd, retcode, runs, atEntry, lastFailed>>

\* run(cmake_cmd, cwd=build)
configure ==
  /\ pc = "configure"
  /\ cmd' = cmake_cmd(cur, extra_flags(cur, platform))
  /\ cwd' = BuildPath(cur)
  /\ build' = [build EXCEPT ![cur] = "used"]
  /\ \E c \in RetCodes :
       /\ retcode' = c
       /\ log' = Append(log, Entry(cur, "configure", c = 0))
       /\ IF ~run_raises(c)
          THEN /\ pc' = "build"
               /\ status' = status
               /\ lastFailed' = lastFailed
          ELSE /\ Raise(c)
               /\ lastFailed' = [lastFailed EXCEPT ![cur] = TRUE]
  /\ UNCHANGED <<host, depsdir, install, args, queue, cur, entered, notice,
                 runs, atEntry>>

\* run(["cmake", "--build", ".", "--parallel", str(CORES)], cwd=build)
cmake_build ==
  /\ pc = "build"
  /\ cmd' = build_cmd(ncpu)
  /\ cwd' = BuildPath(cur)
  /\ \E c \in RetCodes :
       /\ retcode' = c
       /\ log' = Append(log, Entry(cur, "build", c = 0))
       /\ IF ~run_raises(c)
          THEN /\ pc' = "install"
               /\ status' = status
               /\ lastFailed' = lastFailed
          ELSE /\ Raise(c)
               /\ lastFailed' = [lastFailed EXCEPT ![cur] = TRUE]
  /\ UNCHANGED <<host, fs, args, queue, cur, entered, notice, runs, atEntry>>

\* run(["cmake", "--install", "."], cwd=build).  A successful install
\* leaves the install directory complete; a failing one stopped somewhere
\* on the way, having written nothing or a part of the files.
cmake_install ==
  /\ pc = "install"
  /\ cmd' = install_cmd
  /\ cwd' = BuildPath(cur)
  /\ \E c \in RetCodes :
       /\ retcode' = c
       /\ log' = Append(log, Entry(cur, "install", c = 0))
       /\ IF ~run_raises(c)
          THEN /\ install' = [install EXCEPT ![cur] = "complete"]
               /\ pc' = "step"
               /\ status' = status
               /\ lastFailed' = [lastFailed EXCEPT ![cur] = FALSE]
          ELSE /\ \E s \in {install[cur], "partial"} :
                    install' = [install EXCEPT ![cur] = s]
               /\ Raise(c)
               /\ lastFailed' = [lastFailed EXCEPT ![cur] = TRUE]
  /\ UNCHANGED <<host, depsdir, build, args, queue, cur, entered, notice,
                 runs, atEntry>>

\* main returns: the process exits with status 0
finish ==
  /\ pc = "step"
  /\ queue = << >>
  /\ pc' = "exited"
  /\ status' = 0
  /\ UNCHANGED <<host, fs, args, queue, cur, entered, notice, log, cmd, cwd,
                 retcode, runs, atEntry, lastFailed>>

Next ==
  \/ \E t \in Targets, r \in BOOLEAN : Start(t, r)
  \/ ensure_dirs
  \/ main
  \/ apt_update
  \/ apt_install
  \/ gem_install
  \/ build_step
  \/ reset_build
  \/ configure
  \/ cmake_build
  \/ cmake_install
  \/ finish

Spec == Init /\ [][Next]_vars

TypeOK ==
  /\ platform \in Platforms
  /\ ncpu \in 1..MaxCpu
  /\ depsdir \in [Names -> BOOLEAN]
  /\ install \in [Names -> {"absent", "partial", "complete"}]
  /\ build \in [Names -> {"absent", "empty", "used"}]
  /\ pc \in {"idle", "ensure", "dispatch", "apt_update", "apt_install",
             "gem_install", "step", "reset", "configure", "build",
             "install", "exited"}
  /\ target \in Targets
  /\ force \in BOOLEAN
  /\ notice \subseteq Names
  /\ retcode \in RetCodes
  /\ status \in {0, UncaughtExit}
  /\ runs \in 0..MaxRuns
  /\ atEntry \in [Names -> {"absent", "partial", "complete"}]
  /\ lastFailed \in [Names -> BOOLEAN]

\* ------------------------------------------------------------- properties
Cached == {"osg", "simbody", "opensim"}
Chain  == <<"osg", "simbody", "opensim", "scone">>
Full   == <<"reset", "configure", "build", "install">>
Subprocess == {"configure", "build", "install",
               "apt_update", "apt_install", "gem_install"}

Range(s) == {s[i] : i \in 1..Len(s)}
IsPrefix(s, t) == Len(s) <= Len(t) /\ \A i \in 1..Len(s) : s[i] = t[i]
Pos(d) == CHOOSE i \in 1..Len(Chain) : Chain[i] = d

LogOf(d) == SelectSeq(log, LAMBDA e : e.dep = d)
Acts(d)  == [i \in 1..Len(LogOf(d)) |-> LogOf(d)[i].act]
LastIs(d, a) == log # << >> /\ log[Len(log)].dep = d /\ log[Len(log)].act = a

\* the step of d has been called and has returned to main
Returned(d) ==
  /\ d \in Range(entered)
  /\ \/ cur # d
     \/ pc = "step"
     \/ pc = "exited" /\ status = 0

\* every action of d's step but the last one succeeded
OnlyLastMayFail(d) ==
  \A i \in 1..Len(LogOf(d)) : i < Len(LogOf(d)) => LogOf(d)[i].ok

\* C1: a cached dependency whose install directory exists when its step is
\* called without --rebuild is skipped: the notice is printed, no action of
\* the step is performed and the step does not end the run, whether the
\* directory holds a complete install or a part of one.
C1_PureSkip ==
  \A d \in Cached :
    (d \in Range(entered) /\ atEntry[d] # "absent" /\ ~force) =>
       /\ d \in notice
       /\ LogOf(d) = << >>
       /\ install[d] = atEntry[d]
       /\ cur = d => (pc = "step" \/ (pc = "exited" /\ status = 0))

C1_Witness ==
  \E d \in Cached :
    /\ d \in Range(entered) /\ ~force
    /\ atEntry[d] = "partial"
    /\ d \in notice

\* C2: a cached dependency whose install directory exists when its step is
\* called with --rebuild is never skipped; its actions are reset, configure,
\* build, install in this order, each after the earlier one succeeded, the
\* build directory is empty between reset and configure, and a step that
\* returns has performed all four.
C2_RebuildFullSequence ==
  \A d \in Cached :
    (d \in Range(entered) /\ atEntry[d] # "absent" /\ force) =>
       /\ d \notin notice
       /\ IsPrefix(Acts(d), Full)
       /\ OnlyLastMayFail(d)
       /\ (cur = d /\ pc = "configure") => build[d] = "empty"
       /\ Returned(d) => (Acts(d) = Full /\ \A e \in Range(LogOf(d)) : e.ok)

C2_Witness ==
  \E d \in Cached :
    /\ d \in Range(entered) /\ force
    /\ atEntry[d] = "complete"
    /\ Returned(d)
    /\ Acts(d) = Full

\* C3: the scone step is never skipped, whatever --rebuild is and whether
\* its install directory exists: once called it performs reset, configure,
\* build, install in this order, and when it returns all four have been
\* performed.
C3_SconeAlwaysBuilds ==
  "scone" \in Range(entered) =>
     /\ "scone" \notin notice
     /\ IsPrefix(Acts("scone"), Full)
     /\ OnlyLastMayFail("scone")
     /\ (cur = "scone" /\ pc # "reset") => Acts("scone") # << >>
     /\ Returned("scone") =>
          (Acts("scone") = Full /\ \A e \in Range(LogOf("scone")) : e.ok)

C3_Witness ==
  /\ "scone" \in Range(entered)
  /\ ~force
  /\ atEntry["scone"] = "complete"
  /\ Returned("scone")
  /\ Acts("scone") = Full

\* C4: with target all the steps are called in the order osg, simbody,
\* opensim, scone, none twice, and an action of a step is performed only
\* after every earlier step was skipped or finished its install.
C4_AllInOrder ==
  target = "all" =>
     /\ IsPrefix(entered, Chain)
     /\ \A i \in 1..Len(log) :
          \A e \in Names :
            Pos(e) < Pos(log[i].dep) =>
               \/ e \in notice
               \/ \E j \in 1..(i - 1) : log[j] = Entry(e, "install", TRUE)
     /\ (pc = "exited" /\ status = 0) => entered = Chain

C4_Witness ==
  /\ target = "all"
  /\ pc = "exited" /\ status = 0
  /\ entered = Chain
  /\ notice = {}
  /\ \A d \in Names : Acts(d) = Full

\* C5: with target all, an action that fails is the last action of the run:
\* the process has exited with a non-zero status, no later step was called,
\* and the install directories of the steps that finished before it in this
\* run are still complete.
C5_FailFast ==
  target = "all" =>
    \A i \in 1..Len(log) :
      ~log[i].ok =>
         /\ i = Len(log)
         /\ pc = "exited" /\ status # 0
         /\ entered[Len(entered)] = log[i].dep
         /\ \A e \in Names :
              Entry(e, "install", TRUE) \in Range(log) =>
                 install[e] = "complete"

C5_Witness ==
  /\ target = "all"
  /\ pc = "exited"
  /\ Entry("osg", "install", TRUE) \in Range(log)
  /\ Entry("simbody", "build", FALSE) \in Range(log)
  /\ install["osg"] = "complete"
  /\ entered = <<"osg", "simbody">>

\* a subprocess of this run returned a non-zero code
SubprocessFailed == \E e \in Range(log) : e.act \in Subprocess /\ ~e.ok
ResetFailed      == \E e \in Range(log) : e.act = "reset" /\ ~e.ok

\* C6 as stated: the exit status is the failing subprocess's return code,
\* and it is zero when every subprocess returned zero.
C6_Original ==
  pc = "exited" =>
     /\ SubprocessFailed => (status # 0 /\ status = retcode)
     /\ ~SubprocessFailed => status = 0

\* C6: when a subprocess returns a non-zero code the process exits with
\* status 1, whatever the code was; when every subprocess returned zero and
\* the build-directory reset raised no error, the process exits with 0.
C6_ExitStatus ==
  pc = "exited" =>
     /\ SubprocessFailed => (retcode # 0 /\ status = 1)
     /\ ResetFailed => status = 1
     /\ (~SubprocessFailed /\ ~ResetFailed) => status = 0

C6_Witness ==
  /\ pc = "exited"
  /\ SubprocessFailed
  /\ retcode = 2
  /\ status = 1

\* C7 as stated: configure of a dependency is invoked only when the install
\* directory of its predecessor in the chain is complete.
C7_PredecessorInstalled ==
  \A i \in 1..Len(log) :
    (log[i].act = "configure" /\ log[i].dep \in Names /\ Pos(log[i].dep) > 1) =>
       install[Chain[Pos(log[i].dep) - 1]] = "complete"

\* C8: the configure command of the opensim step names the simbody install
\* path as SIMBODY_HOME and switches tests and examples off; on darwin it
\* carries the deployment target, libc++ and the @executable_path rpath and
\* not the $ORIGIN rpath; elsewhere it carries the $ORIGIN rpath and none of
\* the darwin flags.
DarwinOnly ==
  { "-DCMAKE_OSX_DEPLOYMENT_TARGET=10.10",
    "-DCMAKE_CXX_FLAGS=-stdlib=libc++",
    "-DCMAKE_INSTALL_RPATH=@executable_path/../lib" }

C8_OpensimFlags ==
  LastIs("opensim", "configure") =>
    LET A == Range(cmd) IN
      /\ cmd[1] = "cmake"
      /\ "-DSIMBODY_HOME=ROOT/dependencies/simbody/install" \in A
      /\ "-DCMAKE_INSTALL_PREFIX=ROOT/dependencies/opensim/install" \in A
      /\ "-DBUILD_TESTING=OFF" \in A
      /\ "-DBUILD_API_EXAMPLES=OFF" \in A
      /\ IF platform = "darwin"
         THEN /\ DarwinOnly \subseteq A
              /\ "-DCMAKE_INSTALL_RPATH=$ORIGIN" \notin A
         ELSE /\ "-DCMAKE_INSTALL_RPATH=$ORIGIN" \in A
              /\ DarwinOnly \cap A = {}

C8_Witness ==
  /\ LastIs("opensim", "configure")
  /\ platform = "win32"
  /\ "-DCMAKE_INSTALL_RPATH=$ORIGIN" \in Range(cmd)

\* C9 as stated: a dependency whose last executed step hit a failing
\* invocation is not skipped by a later run.
C9_FailedStepNotCached ==
  \A d \in Cached : lastFailed[d] => d \notin notice

\* the parallelism degree k handed to cmake --build
Degree(k) == cmd[5] = ToString(k)

\* C10 as stated: the degree is the processor count halved, rounded down,
\* and at least 1.
C10_Original ==
  (\E d \in Names : LastIs(d, "build")) =>
     \E k \in 0..MaxCpu :
        /\ Degree(k)
        /\ 2 * k <= ncpu /\ ncpu < 2 * k + 2
        /\ k >= 1

\* C10: the degree is the processor count halved, rounded down; it is at
\* least 1 exactly when there are two processors or more, and 0 on a host
\* with one processor.
C10_HalfRoundedDown ==
  (\E d \in Names : LastIs(d, "build")) =>
     \E k \in 0..MaxCpu :
        /\ Degree(k)
        /\ cmd[4] = "--parallel"
        /\ 2 * k <= ncpu /\ ncpu < 2 * k + 2
        /\ (k >= 1) <=> (ncpu >= 2)

C10_Witness ==
  /\ \E d \in Names : LastIs(d, "build")
  /\ ncpu = 1
  /\ Degree(0)

====
